---- MODULE Spec2Model ----
(***************************************************************************)
(* psitools/complex_roots.py: the AAA rational approximation               *)
(* (RationalApproximation) and the parameter continuation (RootFollower).  *)
(*                                                                         *)
(* Numerical results (singular vectors, residuals, poles, secant           *)
(* solves) are not computed: each is a nondeterministic choice over the    *)
(* outcomes that decide the control flow.  Index arithmetic (masks,        *)
(* cumsum, searchsorted, argmax) and the step-size arithmetic are          *)
(* computed as the code computes them.                                     *)
(***************************************************************************)
EXTENDS Integers, Sequences, FiniteSets, TLC

VARIABLES
    \* ---- RationalApproximation ----
    M,          \* self.M, len(F)
    maskF,      \* self.maskF: 0..M-1 -> number (1: node of the fit)
    R,          \* self.R: the residuals of the excluded samples, see Residuals
    weights,    \* self.weights: one entry per node of the fit
    pc,         \* position in calculate()
    m,          \* loop variable of the growth loop
    n_cleanup,  \* n_cleanup of calculate()
    cleanupRet, \* value returned by the last cleanup()
    stepCalls,  \* number of step() calls made by calculate()
    calls,      \* number of calls made by the caller after calculate()
    evalZ,      \* argument of the last evaluate() since the fit last changed
    evalRet,    \* what that evaluate() did and returned
    \* ---- RootFollower ----
    func,       \* self.func: "linear" is equation(z, k) = z - k
    z_start,    \* self.z_start
    k_start,    \* self.k_start
    k_want,     \* argument of calculate()
    ret,        \* ret of calculate()
    rfpc,       \* position in calculate() / _calculate()
    side,       \* which selection calculate() is following: "lt" or "gt"
    sret,       \* ret of _calculate()
    i,          \* loop variable of _calculate()
    idx,        \* idx of _calculate(), as a position 1..Len
    kw,         \* current target
    k,          \* current parameter
    k_step,     \* current step
    finished,   \* finished of _calculate()
    z0,         \* first seed of the secant solve
    z,          \* result of the last root_scalar() call
    accepted,   \* root accepted last in this _calculate() call, if any
    written,    \* positions of k_want whose slot _calculate() assigned
    exhausted   \* selections whose _calculate() returned early

raVars == <<M, maskF, R, weights, pc, m, n_cleanup, cleanupRet, stepCalls,
            calls, evalZ, evalRet>>

rfVars == <<func, z_start, k_start, k_want, ret, rfpc, side, sret, i, idx, kw,
            k, k_step, finished, z0, z, accepted, written, exhausted>>

vars == <<raVars, rfVars>>

(* ------------------------------ bounds --------------------------------- *)
MaxM == 6        \* largest number of samples
MaxCalls == 2    \* calls the caller makes after calculate()

MaxK == 3        \* targets are -MaxK..MaxK times 1.0e-5
MaxLen == 2      \* largest number of targets

(* --------------------------- index helpers ----------------------------- *)
\* np.zeros(self.M)
Zeros(n) == [e \in 0..(n - 1) |-> 0]

\* samples kept by masked_array(self.F, mask=mask).compressed(): mask == 0
ExcludedOf(mask) == {e \in DOMAIN mask : mask[e] = 0}

\* samples kept by masked_array(self.f, mask=1-mask).compressed(): 1-mask == 0
SupportOf(mask) == {e \in DOMAIN mask : 1 - mask[e] = 0}

Excluded == ExcludedOf(maskF)
Support == SupportOf(maskF)

\* np.cumsum(a)
RECURSIVE SumTo(_, _)
SumTo(a, e) == IF e < 0 THEN 0 ELSE a[e] + SumTo(a, e - 1)
CumSum(a) == [e \in DOMAIN a |-> SumTo(a, e)]

\* np.searchsorted(counts, v): first position whose count is >= v, else len
SearchSorted(counts, v) ==
    LET n == Cardinality(DOMAIN counts)
        hit == {e \in DOMAIN counts : counts[e] >= v}
    IN  IF hit = {} THEN n ELSE CHOOSE e \in hit : \A j \in hit : e <= j

\* self.R, the residuals |mF - N/D| of the excluded samples, held as what the
\* code reads of them: how many there are, np.argmax(self.R) (the 0-based
\* position, among the excluded samples in index order, of the largest) and
\* whether np.max(self.R)/np.max(np.abs(self.F)) is below self.tol
Residuals(n) ==
    IF n = 0
    THEN {[len |-> 0, argmax |-> 0, below |-> FALSE]}
    ELSE {[len |-> n, argmax |-> a, below |-> b] :
             a \in 0..(n - 1), b \in BOOLEAN}

\* np.argmax(self.R)
ArgMax(r) == r.argmax

\* new_norm < self.tol
BelowTol(r) == r.below

(* ------------------------ RationalApproximation ------------------------ *)
\* self.maskF[i] = 1
SetMask(mask, e) == [mask EXCEPT ![e] = 1]

\* a removal that decrements instead of clearing
ClearMaskDec(mask, e) == [mask EXCEPT ![e] = @ - 1]

\* self.maskF[j] = 0
ClearMask(mask, e) == [mask EXCEPT ![e] = 0]

\* step() with searchsorted(counts, i) in place of searchsorted(counts, i + 1)
StepIndexOff(mask, r) ==
    SearchSorted(CumSum([e \in DOMAIN mask |-> 1 - mask[e]]), ArgMax(r))

\* step(): the ArgMax(r)-th sample where mask = 0
StepIndex(mask, r) ==
    SearchSorted(CumSum([e \in DOMAIN mask |-> 1 - mask[e]]), ArgMax(r) + 1)

\* a growth loop that runs one iteration too many
LoopLastOff(n) == n \div 2

\* for m in range(1, np.int(len(self.F)/2)): the last value of m
LoopLast(n) == (n \div 2) - 1

\* cleanup(): the j-th sample where mask = 1
NodeIndex(mask, j) == SearchSorted(CumSum(mask), j + 1)

\* cleanup(): for j in remove_list: self.maskF[j] = 0
RECURSIVE RemoveAll(_, _)
RemoveAll(mask, ks) ==
    IF ks = <<>> THEN mask
    ELSE RemoveAll(ClearMask(mask, Head(ks)), Tail(ks))

\* cleanup(): the positions j = argmin|p - mz| appended for the spurious poles
\* among the poles in the domain; find_poles_in_domain() has at most n - 1
\* poles for n nodes (e[2:] of n + 1 eigenvalues)
NearestLists(n) == UNION {[1..l -> 0..(n - 1)] : l \in 0..(n - 1)}

\* calc_weights_residuals(): new weights, one per node, and new residuals,
\* one per excluded sample; np.max(self.R) raises when there is none
CalcWeightsResiduals(mask) ==
    /\ weights' = [j \in 1..Cardinality(SupportOf(mask)) |-> 1]
    /\ R' \in Residuals(Cardinality(ExcludedOf(mask)))

\* no evaluate() since the fit last changed
NoEval ==
    /\ evalZ' = 0
    /\ evalRet' = [nodes |-> {}, divZero |-> FALSE,
                   val |-> [kind |-> "none", at |-> 0]]

\* calculate(F, Z) up to the call of first_step()
Calculate ==
    /\ pc = "init"
    /\ maskF' = Zeros(M)
    /\ pc' = "first"
    /\ UNCHANGED <<M, R, weights, m, n_cleanup, cleanupRet, stepCalls, calls,
                   evalZ, evalRet>>
    /\ UNCHANGED rfVars

\* first_step(), called by calculate() or afterwards by the caller
FirstStep ==
    /\ pc = "first" \/ (pc = "done" /\ calls < MaxCalls)
    /\ maskF' = SetMask(SetMask(maskF, 0), 1)
    /\ CalcWeightsResiduals(maskF')
    /\ IF R'.len = 0 THEN pc' = "raised" /\ UNCHANGED <<m, calls>>
       ELSE IF pc = "first" THEN pc' = "grow" /\ m' = 1 /\ UNCHANGED calls
       ELSE pc' = pc /\ calls' = calls + 1 /\ UNCHANGED m
    /\ NoEval
    /\ UNCHANGED <<M, n_cleanup, cleanupRet, stepCalls>>
    /\ UNCHANGED rfVars

\* step() in the growth loop of calculate()
GrowStep ==
    /\ pc = "grow"
    /\ m <= LoopLast(M)
    /\ maskF' = SetMask(maskF, StepIndex(maskF, R))
    /\ CalcWeightsResiduals(maskF')
    /\ stepCalls' = stepCalls + 1
    /\ IF R'.len = 0 THEN pc' = "raised" /\ UNCHANGED m
       ELSE IF BelowTol(R') \/ m = LoopLast(M)
            THEN pc' = "clean" /\ UNCHANGED m
            ELSE pc' = "grow" /\ m' = m + 1
    /\ NoEval
    /\ UNCHANGED <<M, n_cleanup, cleanupRet, calls>>
    /\ UNCHANGED rfVars

\* step() called by the caller after calculate()
Step ==
    /\ pc = "done" /\ calls < MaxCalls
    /\ maskF' = SetMask(maskF, StepIndex(maskF, R))
    /\ CalcWeightsResiduals(maskF')
    /\ IF R'.len = 0 THEN pc' = "raised" /\ UNCHANGED calls
       ELSE pc' = pc /\ calls' = calls + 1
    /\ NoEval
    /\ UNCHANGED <<M, m, n_cleanup, cleanupRet, stepCalls>>
    /\ UNCHANGED rfVars

\* cleanup(), in the loop of calculate() or called afterwards by the caller
Cleanup ==
    /\ pc = "clean" \/ (pc = "done" /\ calls < MaxCalls)
    /\ \E near \in NearestLists(Cardinality(Support)) :
         LET remove_list == [l \in DOMAIN near |-> NodeIndex(maskF, near[l])]
         IN  /\ maskF' = RemoveAll(maskF, remove_list)
             /\ cleanupRet' = Len(remove_list)
    /\ CalcWeightsResiduals(maskF')
    /\ IF pc = "clean"
       THEN /\ IF cleanupRet' # 0
               THEN pc' = "clean" /\ n_cleanup' = n_cleanup + 1
               ELSE pc' = "done" /\ UNCHANGED n_cleanup
            /\ UNCHANGED calls
       ELSE pc' = pc /\ calls' = calls + 1 /\ UNCHANGED n_cleanup
    /\ NoEval
    /\ UNCHANGED <<M, m, stepCalls>>
    /\ UNCHANGED rfVars

\* evaluate(z) after calculate(); sample j lies at the point j, and the
\* point -1 is no sample.  d = self.weights/(z[i] - mz) divides by
\* z - mz[j] for every node j
Evaluate ==
    /\ pc = "done"
    /\ \E pt \in (0 - 1)..(M - 1) :
         LET divZero == \E j \in Support : pt - j = 0
         IN  /\ evalZ' = pt
             /\ evalRet' = [nodes |-> Support,
                            divZero |-> divZero,
                            val |-> IF divZero
                                    THEN [kind |-> "nan", at |-> pt]
                                    ELSE [kind |-> "quotient", at |-> pt]]
    /\ UNCHANGED <<M, maskF, R, weights, pc, m, n_cleanup, cleanupRet,
                   stepCalls, calls>>
    /\ UNCHANGED rfVars


(* ----------------------------- RootFollower ---------------------------- *)
\* Parameters k and steps k_step are fixed-point numbers in units of 1.0e-7;
\* a quotient or product is truncated toward zero to a whole unit.

\* if (k_step < 1.0e-6)
Floor == 10

\* the parameter value 1.0e-5
Grain == 10 * Floor

\* the parameter value 1.0
One == 100000 * Grain

Sign(x) == IF x > 0 THEN 1 ELSE IF x < 0 THEN 0 - 1 ELSE 0
Abs(x) == IF x < 0 THEN 0 - x ELSE x

\* k_step/10
Div10(x) == Sign(x) * (Abs(x) \div 10)

\* k_step*np.sqrt(2)
MulSqrt2(x) ==
    Sign(x) * ((Abs(x) \div 1000) * 1414 + ((Abs(x) % 1000) * 1414) \div 1000)

\* a root of func(., p) whose imaginary part has sign im
Root(p, im) == [kind |-> "root", at |-> p, im |-> im]

\* an entry of np.zeros(n, dtype=np.complex128)
ZeroSlot == [kind |-> "zero", at |-> 0, im |-> 0]

\* np.asarray(k_want < self.k_start).nonzero() and
\* np.asarray(k_want > self.k_start).nonzero(): the positions, in order
SelOf(kwant, kstart, sd) ==
    LET S == {p \in DOMAIN kwant :
                IF sd = "lt" THEN kwant[p] < kstart ELSE kwant[p] > kstart}
    IN  [j \in 1..Cardinality(S) |->
            CHOOSE p \in S : Cardinality({q \in S : q < p}) = j - 1]

Sel == SelOf(k_want, k_start, side)

\* k_want[sel], the argument of _calculate()
SubWant == [j \in DOMAIN Sel |-> k_want[Sel[j]]]

\* _calculate(): idx = i, or -(i+1) if k_want[0] < self.k_start
IdxOf(sub, kstart, n) == IF sub[1] < kstart THEN Len(sub) - n ELSE n + 1

\* opt.root_scalar(f, method='secant', x0=z0, x1=z1, maxiter=10) at the
\* parameter p: for z - k it converges to the real root p; for another
\* equation it converges or not, to a root on either side of the real axis
SolveResults(fn, p, x0) ==
    IF fn = "linear"
    THEN {[converged |-> TRUE, root |-> Root(p, 0), x0 |-> x0]}
    ELSE {[converged |-> c, root |-> Root(p, s), x0 |-> x0] :
             c \in {TRUE}, s \in {0 - 1, 0, 1}}
         \cup {[converged |-> FALSE, root |-> Root(p, 0), x0 |-> x0]}

\* if (z.converged is True): if z.root.imag*z0.imag > 0
Accepts(res, seed) == res.converged /\ res.root.im * seed.im > 0

\* _calculate() up to its for loop
Enter(sd) ==
    /\ side' = sd
    /\ sret' = [j \in DOMAIN SelOf(k_want, k_start, sd) |-> ZeroSlot]
    /\ k' = k_start
    /\ z0' = z_start
    /\ i' = 0
    /\ accepted' = ZeroSlot
    /\ rfpc' = "for"

\* calculate(k_want) up to the first _calculate() call
RFCalculate ==
    /\ rfpc = "idle"
    /\ ret' = [j \in DOMAIN k_want |-> ZeroSlot]
    /\ Enter("lt")
    /\ UNCHANGED <<func, z_start, k_start, k_want, idx, kw, k_step, finished,
                   z, written, exhausted>>
    /\ UNCHANGED raVars

\* for i in range(0, len(k_want)): the head of an iteration, or the
\* return ret after the last one
ForLoop ==
    /\ rfpc = "for"
    /\ IF i < Len(SubWant)
       THEN /\ idx' = IdxOf(SubWant, k_start, i)
            /\ kw' = SubWant[idx']
            /\ k_step' = kw' - k
            /\ finished' = FALSE
            /\ rfpc' = "while"
       ELSE /\ rfpc' = "return"
            /\ UNCHANGED <<idx, kw, k_step, finished>>
    /\ UNCHANGED <<func, z_start, k_start, k_want, ret, side, sret, i, k, z0,
                   z, accepted, written, exhausted>>
    /\ UNCHANGED raVars

\* while (True): if (finished is True): break, and ret[idx] = z.root
While ==
    /\ rfpc = "while"
    /\ IF finished
       THEN /\ sret' = [sret EXCEPT ![idx] = z.root]
            /\ written' = written \cup {Sel[idx]}
            /\ i' = i + 1
            /\ rfpc' = "for"
       ELSE /\ rfpc' = "solve"
            /\ UNCHANGED <<sret, written, i>>
    /\ UNCHANGED <<func, z_start, k_start, k_want, ret, side, idx, kw, k,
                   k_step, finished, z0, z, accepted, exhausted>>
    /\ UNCHANGED raVars

\* z = opt.root_scalar(f, method='secant', x0=z0, x1=z1, maxiter=10) at
\* k + k_step; z1 is z0 displaced by eps and is assigned once, with z0
Solve ==
    /\ rfpc = "solve"
    /\ z' \in SolveResults(func, k + k_step, z0)
    /\ rfpc' = "check"
    /\ UNCHANGED <<func, z_start, k_start, k_want, ret, side, sret, i, idx, kw,
                   k, k_step, finished, z0, accepted, written, exhausted>>
    /\ UNCHANGED raVars

\* a clamp that tests only the upper side, whatever the sign of the step
OvershootsUp(k1, ks, want) == k1 + ks > want

\* if (k_step > 0): if (k + k_step > kw) ... else: if (k + k_step < kw)
Overshoots(k1, ks, want) ==
    IF ks > 0 THEN k1 + ks > want ELSE k1 + ks < want

\* the rest of the inner loop and, when the root is accepted, of the outer
\* loop's body
Check ==
    /\ rfpc = "check"
    /\ IF Accepts(z, z0)
       THEN LET k1 == k + k_step
                ks == MulSqrt2(k_step)
                over == Overshoots(k1, ks, kw)
            IN  /\ k' = k1
                /\ k_step' = IF over THEN kw - k1 ELSE ks
                /\ finished' = IF over THEN TRUE ELSE finished
                /\ accepted' = z.root
                /\ rfpc' = "while"
                /\ UNCHANGED exhausted
       ELSE /\ k_step' = Div10(k_step)
            /\ IF k_step' < Floor
               THEN rfpc' = "return" /\ exhausted' = exhausted \cup {side}
               ELSE rfpc' = "solve" /\ UNCHANGED exhausted
            /\ UNCHANGED <<k, finished, accepted>>
    /\ UNCHANGED <<func, z_start, k_start, k_want, ret, side, sret, i, idx, kw,
                   z0, z, written>>
    /\ UNCHANGED raVars

\* ret[sel] = self._calculate(k_want[sel]), then the second selection or
\* return ret
Return ==
    /\ rfpc = "return"
    /\ ret' = [j \in DOMAIN ret |->
                 IF \E l \in DOMAIN Sel : Sel[l] = j
                 THEN sret[CHOOSE l \in DOMAIN Sel : Sel[l] = j]
                 ELSE ret[j]]
    /\ IF side = "lt"
       THEN Enter("gt")
       ELSE rfpc' = "done" /\ UNCHANGED <<side, sret, k, z0, i, accepted>>
    /\ UNCHANGED <<func, z_start, k_start, k_want, idx, kw, k_step, finished,
                   z, written, exhausted>>
    /\ UNCHANGED raVars

RAInit ==
    /\ M \in 4..MaxM
    /\ maskF = <<>>
    /\ R = [len |-> 0, argmax |-> 0, below |-> FALSE]
    /\ weights = <<>>
    /\ pc = "init"
    /\ m = 0
    /\ n_cleanup = 0
    /\ cleanupRet = 0
    /\ stepCalls = 0
    /\ calls = 0
    /\ evalZ = 0
    /\ evalRet = [nodes |-> {}, divZero |-> FALSE,
                  val |-> [kind |-> "none", at |-> 0]]

\* a RootFollower that is constructed and not used
RFIdle ==
    /\ func = "linear"
    /\ z_start = Root(0, 0)
    /\ k_start = 0
    /\ k_want = <<>>
    /\ ret = <<>>
    /\ rfpc = "unused"
    /\ side = "lt"
    /\ sret = <<>>
    /\ i = 0
    /\ idx = 0
    /\ kw = 0
    /\ k = 0
    /\ k_step = 0
    /\ finished = FALSE
    /\ z0 = Root(0, 0)
    /\ z = [converged |-> FALSE, root |-> Root(0, 0), x0 |-> Root(0, 0)]
    /\ accepted = ZeroSlot
    /\ written = {}
    /\ exhausted = {}

Init == RAInit /\ RFIdle

\* target parameters: multiples of 1.0e-5 around k_start = 0
KVals == {t * Grain : t \in (0 - MaxK)..MaxK}

\* RootFollower(func, z_start, k_start) and the k_want given to calculate():
\* z - k with the anchor (0, 0) and the targets [1, 2, 3], or any equation
\* with an anchor on or off the real axis and any short array of targets
RFInit ==
    /\ RAInit /\ M = 4
    /\ \/ /\ func = "linear"
          /\ z_start = Root(0, 0)
          /\ k_want = <<One, 2 * One, 3 * One>>
       \/ /\ func = "oracle"
          /\ z_start \in {Root(0, s) : s \in {0 - 1, 0, 1}}
          /\ k_want \in UNION {[1..n -> KVals] : n \in 0..MaxLen}
    /\ k_start = 0
    /\ ret = <<>>
    /\ rfpc = "idle"
    /\ side = "lt"
    /\ sret = <<>>
    /\ i = 0
    /\ idx = 0
    /\ kw = 0
    /\ k = 0
    /\ k_step = 0
    /\ finished = FALSE
    /\ z0 = z_start
    /\ z = [converged |-> FALSE, root |-> Root(0, 0), x0 |-> Root(0, 0)]
    /\ accepted = ZeroSlot
    /\ written = {}
    /\ exhausted = {}

RFNext ==
    \/ RFCalculate
    \/ ForLoop
    \/ While
    \/ Solve
    \/ Check
    \/ Return

RFSpec == RFInit /\ [][RFNext]_vars

\* calculate() is a blocking call: it keeps running until it returns
RFFair == RFSpec /\ WF_vars(RFNext)

Next ==
    \/ Calculate
    \/ FirstStep
    \/ GrowStep
    \/ Step
    \/ Cleanup

\* calculate(F, Z), then first_step(), step() and cleanup() called by the
\* caller in any sequence
Spec == Init /\ [][Next]_vars

\* calculate(F, Z) alone, from its call to its return
CalcNext ==
    \/ Calculate
    \/ pc = "first" /\ FirstStep
    \/ GrowStep
    \/ pc = "clean" /\ Cleanup

\* calculate() is a blocking call: it keeps running until it returns
CalcSpec == Init /\ [][CalcNext]_vars /\ WF_vars(CalcNext)

\* calculate(F, Z), then evaluate(z) called by the caller
EvalNext ==
    \/ Calculate
    \/ pc = "first" /\ FirstStep
    \/ GrowStep
    \/ pc = "clean" /\ Cleanup
    \/ Evaluate

EvalSpec == Init /\ [][EvalNext]_vars

(* ------------------------------- claims -------------------------------- *)

\* C1: once calculate() has started, and after every first_step(), step()
\* and cleanup() call, every sample index 0..M-1 is in exactly one of
\* support and excluded: no index is in both and |support| + |excluded| = M.
C1_Partition ==
    pc # "init" =>
        /\ Support \cap Excluded = {}
        /\ Support \cup Excluded = 0..(M - 1)
        /\ Cardinality(Support) + Cardinality(Excluded) = M

\* C1: calculate() has grown the fit and cleaned it up, removing nodes, and
\* the caller's own cleanup() has removed nodes again.
C1_Witness ==
    /\ pc = "done"
    /\ calls = MaxCalls
    /\ stepCalls >= 2
    /\ n_cleanup > 0
    /\ cleanupRet > 0

\* the excluded sample of largest residual: the one with ArgMax(R) excluded
\* samples before it
LargestResidual(e) == Cardinality({j \in Excluded : j < e}) = ArgMax(R)

\* C2: in the growth phase of calculate(), first_step() leaves exactly the
\* samples 0 and 1 in support, each step() moves exactly one sample, an
\* excluded one of largest residual, into support and removes none, and
\* after stepCalls growth steps |support| = stepCalls + 2.
C2_Growth ==
    /\ []((pc = "grow" \/ (pc = "clean" /\ n_cleanup = 0)) =>
            /\ Cardinality(Support) = stepCalls + 2
            /\ stepCalls = 0 => Support = {0, 1})
    /\ [][pc = "grow" =>
            \E e \in Excluded :
                /\ LargestResidual(e)
                /\ Support' = Support \cup {e}
                /\ Excluded' = Excluded \ {e}]_vars

\* C2: the growth loop has run to its cap of two steps on six samples.
C2_Witness ==
    /\ pc = "clean"
    /\ n_cleanup = 0
    /\ M = 6
    /\ stepCalls = 2
    /\ Cardinality(Support) = 4

\* C3: with equation(z, k) = z - k and the anchor (0, 0),
\* calculate([1, 2, 3]) returns [1, 2, 3].
C3_LinearReturnsTargets ==
    (/\ rfpc = "done"
     /\ func = "linear"
     /\ z_start = Root(0, 0)
     /\ k_start = 0
     /\ k_want = <<One, 2 * One, 3 * One>>)
    => ret = <<Root(One, 0), Root(2 * One, 0), Root(3 * One, 0)>>

\* C4: when calculate() returns, every slot whose target was not reached
\* because the continuation was exhausted holds a not-a-number sentinel,
\* never the zero the array was initialised with.
C4_ExhaustedSlotsHoldSentinel ==
    rfpc = "done" =>
        \A sd \in exhausted :
            \A l \in DOMAIN SelOf(k_want, k_start, sd) :
                LET p == SelOf(k_want, k_start, sd)[l]
                IN  p \notin written =>
                        ret[p].kind = "nan" /\ ret[p] # ZeroSlot

\* C5: evaluate(z) with z equal to a node of the fit returns the stored
\* sample value of that node and never divides by the zero difference.
C5_EvaluateAtNodeGuarded ==
    (evalRet.val.kind # "none" /\ evalZ \in evalRet.nodes) =>
        /\ ~evalRet.divZero
        /\ evalRet.val = [kind |-> "sample", at |-> evalZ]

\* C6: RootFollower.calculate() returns for every array of targets, sorted
\* or not, with or without repeated values, and for every pattern of
\* secant outcomes.
C6_FollowerTerminates == <>(rfpc = "done")

\* C7: calculate() terminates: it makes at most floor(M/2) - 1 step() calls
\* and none after the first whose residual is below tol, every cleanup()
\* pass that returns non-zero strictly shrinks support without emptying it,
\* and calculate() reaches its end.
C7_CalculateTerminates ==
    /\ [](stepCalls <= (M \div 2) - 1)
    /\ [][(pc = "grow" /\ BelowTol(R')) => pc' # "grow"]_vars
    /\ [][pc # "grow" => stepCalls' = stepCalls]_vars
    /\ [][(pc = "clean" /\ pc' = "clean") =>
            /\ Support' \subseteq Support
            /\ Support' # Support
            /\ Support' # {}]_vars
    /\ <>(pc = "done")

\* C7: calculate() has ended after the full number of growth steps and
\* three cleanup passes that removed nodes.
C7_Witness ==
    /\ pc = "done"
    /\ calls = 0
    /\ M = 6
    /\ stepCalls = 2
    /\ n_cleanup = 3

\* C8: when calculate() returns, every slot that _calculate() assigned
\* holds a root accepted at exactly the slot's target parameter.
C8_SlotHoldsRootAtTarget ==
    rfpc = "done" =>
        \A p \in written : ret[p].kind = "root" /\ ret[p].at = k_want[p]

\* C9: the value cleanup() returns is the number of samples the pass moved
\* from support to excluded.
C9_CleanupCountsMoved ==
    [][pc = "clean" => cleanupRet' = Cardinality(Support \ Support')]_vars

\* C10: every secant solve made after a root was accepted in this
\* continuation is seeded with the root accepted last.
C10_SeededFromAccepted ==
    (rfpc = "check" /\ accepted.kind = "root") => z.x0 = accepted

\* C11: a solve that is not accepted divides the step by 10, and the
\* continuation is given up only when the magnitude of the divided step is
\* below 1e-6, for negative steps as for positive ones; otherwise the solve
\* is retried.
C11_ExhaustedOnlyBelowFloor ==
    [][(rfpc = "check" /\ ~Accepts(z, z0)) =>
          /\ k_step' = Div10(k_step)
          /\ rfpc' = "return" <=> Abs(k_step') < Floor
          /\ rfpc' = "solve" <=> Abs(k_step') >= Floor]_vars

\* x lies between a and b, the ends included, whichever end is the larger
Between(a, x, b) == (a <= x /\ x <= b) \/ (b <= x /\ x <= a)

\* the targets on each side of k_start are given in ascending order
SortedSides ==
    \A sd \in {"lt", "gt"} :
        LET sel == SelOf(k_want, k_start, sd)
        IN  \A a, b \in DOMAIN sel :
                a < b => k_want[sel[a]] <= k_want[sel[b]]

\* C12: for targets sorted on each side of k_start, every secant solve is
\* attempted at a parameter k + k_step between k and the current target,
\* and after every accepted step k lies between k_start and the current
\* target, the ends included.
C12_NoOvershoot ==
    SortedSides =>
        /\ rfpc \in {"solve", "check"} => Between(k, k + k_step, kw)
        /\ (rfpc = "while" /\ accepted.kind = "root") =>
              Between(k_start, k, kw)

\* C12: on a side with two sorted targets, the second target is being
\* solved for with a step that is neither zero nor the whole remaining
\* distance, after a step was accepted.
C12_Witness ==
    /\ SortedSides
    /\ rfpc = "check"
    /\ i = 1
    /\ accepted.kind = "root"
    /\ k_step # 0
    /\ k_step # kw - k

====
